---- MODULE Spec2Model ----
(***************************************************************************)
(* A model of squishy-rs: locating the archive appended to an AppImage     *)
(* host file (get_offset, the magic scans, detect_filesystem_type and the  *)
(* constructors that use them), and the resource discovery and symlink     *)
(* resolution over the archive's entries, the output file name of an       *)
(* extracted resource, the DwarFS directory walk, and the bulk extraction  *)
(* of an archive into a destination directory.                             *)
(*                                                                         *)
(* Bytes are one-character strings.  A host file is `pre` filler bytes     *)
(* (bytes that are no letter of either magic) followed by the explicit     *)
(* byte sequence `tail`; the fields that goblin decodes from the ELF       *)
(* header and the section header table are carried next to the bytes.      *)
(***************************************************************************)
EXTENDS Integers, Sequences, FiniteSets, TLC

VARIABLES
    host,       \* the host file on disk (SpecLocate)
    call,       \* the operation last invoked, with its arguments
    ret,        \* what that operation returned
    fs,         \* AppImage.fs: which backend the opened AppImage wraps
    files,      \* the archive's nodes in the backend's traversal order
    filter,     \* AppImage.filter: Option<&str>
    cand,       \* the candidate a find_* operation selected, before resolution
    cur,        \* resolution in progress: the entry / target being looked at
    visited,    \* follow_symlink's visited set (backend resolvers only)
    depth,      \* how many resolve_symlink / follow_symlink calls are nested
    pc,         \* "idle" | "resolve" (in AppImage::resolve_symlink) | "follow" (in follow_symlink) | "walk" (in DwarFS::entries) | "done"
    output_name,\* the override name handed to get_output_filename / extract_file
    tree,       \* the DwarFS index: the entries of the root directory (SpecWalk)
    stack,      \* walk_dir iterators in progress, innermost first
    out,        \* the entries the DwarFS::entries() iterator has yielded so far
    dest,       \* the destination directory: relative path -> what is there
    dest0,      \* the destination directory as the current run found it
    task,       \* per archive entry: where its extraction closure is, and its result
    run,        \* 0 before the first bulk extraction run, then the run's number
    faults,     \* how many operations on the destination have failed so far
    killed      \* how many runs were interrupted

nameVars == <<output_name>>
walkVars == <<tree, stack, out>>
extractVars == <<dest, dest0, task, run, faults, killed>>

vars == <<host, call, ret, fs, files, filter, cand, cur, visited, depth, pc,
          output_name, tree, stack, out, dest, dest0, task, run, faults, killed>>

None == [some |-> FALSE]
Some(v) == [some |-> TRUE, val |-> v]

Max2(a, b) == IF a >= b THEN a ELSE b

(***************************************************************************)
(* Host file bytes.                                                        *)
(***************************************************************************)
SQUASHFS_MAGIC == <<"h", "s", "q", "s">>
DWARFS_MAGIC == <<"D", "W", "A", "R", "F", "S">>

\* a byte that is no letter of either magic
Filler == "x"

FileLen(f) == f.pre + Len(f.tail)

ByteAt(f, i) == IF i < f.pre THEN Filler ELSE f.tail[i - f.pre + 1]

\* read_exact of n bytes at position pos; the caller checks that they exist
ReadAt(f, pos, n) == [k \in 1..n |-> ByteAt(f, pos + k - 1)]

CanRead(f, pos, n) == pos + n <= FileLen(f)

(***************************************************************************)
(* get_offset                                                              *)
(***************************************************************************)
ELF_HEADER_LEN == 64
SECTION_HEADER_LEN == 64

\* Result<T, E> of the operations on the host file: `offset` is the payload of
\* an offset search, `kind` the payload of a detection or an open
OkOffset(n) == [ok |-> TRUE, offset |-> n, kind |-> "none", err |-> "none"]
OkKind(k) == [ok |-> TRUE, offset |-> 0, kind |-> k, err |-> "none"]
ErrOffset(e) == [ok |-> FALSE, offset |-> 0, kind |-> "none", err |-> e]
NoRet == ErrOffset("none")

\* goblin's Elf::parse over the first `required` bytes: the header must be an
\* ELF header, and the section header table (absent when e_shoff = 0) must
\* lie within the buffer
ElfParses(f, required) ==
    /\ f.elf
    /\ required >= ELF_HEADER_LEN
    /\ f.e_shoff # 0 => (f.e_shnum >= 1 /\ f.e_shoff + f.e_shnum * SECTION_HEADER_LEN <= required)

\* elf.section_headers
SectionHeaders(f) == IF f.e_shoff = 0 THEN <<>> ELSE f.sh

SectionEnd(section) == section.sh_offset + section.sh_size

\* .last().map(|section| section.sh_offset + section.sh_size).unwrap_or(0)
LastSectionEnd(sections) ==
    IF sections = <<>> THEN 0 ELSE SectionEnd(sections[Len(sections)])

get_offset(f) ==
    IF ~CanRead(f, 0, ELF_HEADER_LEN) THEN ErrOffset("Io")
    ELSE LET required_bytes == f.e_shoff + f.e_shnum * SECTION_HEADER_LEN
         IN  IF ~CanRead(f, 0, required_bytes) THEN ErrOffset("Io")
             ELSE IF ~ElfParses(f, required_bytes) THEN ErrOffset("Io")
             ELSE LET section_table_end == f.e_shoff + f.e_shentsize * f.e_shnum
                      last_section_end == LastSectionEnd(SectionHeaders(f))
                  IN  OkOffset(Max2(section_table_end, last_section_end))

(***************************************************************************)
(* The magic scans                                                         *)
(***************************************************************************)
Min(S) == CHOOSE x \in S : \A y \in S : x <= y

\* The loop `while file.read_exact(&mut buf).is_ok()`: the reads start at 0,
\* step, 2*step, ..., where step is what one iteration moves the cursor by; the
\* loop returns at the first read that matches, and ends with the not-found
\* error at the first read_exact that hits the end of the file.
ReadStarts(f, step) == { pos \in 0..FileLen(f) : pos % step = 0 }

MatchesAt(f, magic, pos) == CanRead(f, pos, Len(magic)) /\ ReadAt(f, pos, Len(magic)) = magic

\* find_squashfs_offset never seeks: the next read starts where the last ended
find_squashfs_offset(f) ==
    LET step == Len(SQUASHFS_MAGIC)
        found == { pos \in ReadStarts(f, step) : MatchesAt(f, SQUASHFS_MAGIC, pos) }
    IN  IF found = {} THEN ErrOffset("NoSquashFsFound")
        ELSE OkOffset((Min(found) + Len(SQUASHFS_MAGIC)) - Len(SQUASHFS_MAGIC))

\* file.seek(SeekFrom::Current(-5)) after a non-match
DWARFS_SEEK_BACK == 5

find_dwarfs_offset(f) ==
    LET step == Len(DWARFS_MAGIC) - DWARFS_SEEK_BACK
        found == { pos \in ReadStarts(f, step) : MatchesAt(f, DWARFS_MAGIC, pos) }
    IN  IF found = {} THEN ErrOffset("NoDwarFsFound")
        ELSE OkOffset((Min(found) + Len(DWARFS_MAGIC)) - Len(DWARFS_MAGIC))

(***************************************************************************)
(* detect_filesystem_type                                                  *)
(***************************************************************************)
DETECT_LEN == 6

\* a detector whose buffer holds the 4 bytes of the SquashFS magic only
DetectFourBytes(f, offset) ==
    IF ~CanRead(f, offset, Len(SQUASHFS_MAGIC)) THEN ErrOffset("Io")
    ELSE IF ReadAt(f, offset, Len(SQUASHFS_MAGIC)) = SQUASHFS_MAGIC THEN OkKind("SquashFS")
    ELSE ErrOffset("NoFilesystemFound")

detect_filesystem_type(f, offset) ==
    IF ~CanRead(f, offset, DETECT_LEN) THEN ErrOffset("Io")
    ELSE LET magic == ReadAt(f, offset, DETECT_LEN)
         IN  IF SubSeq(magic, 1, 4) = SQUASHFS_MAGIC THEN OkKind("SquashFS")
             ELSE IF magic = DWARFS_MAGIC THEN OkKind("DwarFS")
             ELSE ErrOffset("NoFilesystemFound")

(***************************************************************************)
(* Opening a backend                                                       *)
(***************************************************************************)
\* backhand's FilesystemReader::from_reader_with_offset: a superblock, which
\* begins with the magic, must be at the offset
SquashfsReaderOpens(f, offset) ==
    /\ CanRead(f, offset, Len(SQUASHFS_MAGIC))
    /\ ReadAt(f, offset, Len(SQUASHFS_MAGIC)) = SQUASHFS_MAGIC

\* the dwarfs crate's Archive::new over the slice that starts at the offset
DwarfsArchiveOpens(f, offset) ==
    /\ CanRead(f, offset, Len(DWARFS_MAGIC))
    /\ ReadAt(f, offset, Len(DWARFS_MAGIC)) = DWARFS_MAGIC

\* offset.unwrap_or(<expr>?): the argument of unwrap_or is evaluated, and its
\* error returned, before unwrap_or looks at the option
SquashFS_new(f, offset) ==
    LET scan == find_squashfs_offset(f)
    IN  IF ~scan.ok THEN ErrOffset("NoSquashFsFound")
        ELSE LET off == IF offset.some THEN offset.val ELSE scan.offset
             IN  IF SquashfsReaderOpens(f, off) THEN OkKind("SquashFS")
                 ELSE ErrOffset("InvalidSquashFS")

SquashFS_from_path_with_offset(f, offset) == SquashFS_new(f, Some(offset))

DwarFS_from_path_with_offset(f, offset) ==
    IF DwarfsArchiveOpens(f, offset) THEN OkKind("DwarFS") ELSE ErrOffset("InvalidDwarFS")

DwarFS_from_path(f) ==
    LET scan == find_dwarfs_offset(f)
    IN  IF ~scan.ok THEN ErrOffset("NoDwarFsFound")
        ELSE DwarFS_from_path_with_offset(f, scan.offset)

AppImage_new(f, offset) ==
    LET located == get_offset(f)
    IN  IF ~located.ok THEN ErrOffset("Io")
        ELSE LET off == IF offset.some THEN offset.val ELSE located.offset
                 fs_type == detect_filesystem_type(f, off)
             IN  IF ~fs_type.ok THEN fs_type
                 ELSE IF fs_type.kind = "SquashFS"
                      THEN IF SquashFS_from_path_with_offset(f, off).ok
                           THEN OkKind("SquashFS") ELSE ErrOffset("InvalidSquashFS")
                      ELSE DwarFS_from_path_with_offset(f, off)

AppImage_new_squashfs(f, offset) ==
    LET located == get_offset(f)
    IN  IF ~located.ok THEN ErrOffset("Io")
        ELSE LET off == IF offset.some THEN offset.val ELSE located.offset
             IN  IF SquashFS_from_path_with_offset(f, off).ok
                 THEN OkKind("SquashFS") ELSE ErrOffset("InvalidSquashFS")

AppImage_new_dwarfs(f, offset) ==
    LET located == get_offset(f)
    IN  IF ~located.ok THEN ErrOffset("Io")
        ELSE LET off == IF offset.some THEN offset.val ELSE located.offset
             IN  DwarFS_from_path_with_offset(f, off)

\* the Unsquashfs command up to the open: both results are unwrap()ped
unsquashfs_open(f, offset) ==
    LET located == get_offset(f)
    IN  IF ~located.ok THEN ErrOffset("panic")
        ELSE LET off == IF offset.some THEN offset.val ELSE located.offset
             IN  IF SquashFS_from_path_with_offset(f, off).ok
                 THEN OkKind("SquashFS") ELSE ErrOffset("panic")

\* the DwarfsExtract command up to the open: a failure exits the process
dwarfs_extract_open(f, offset) ==
    LET opened == IF offset.some THEN DwarFS_from_path_with_offset(f, offset.val)
                  ELSE DwarFS_from_path(f)
    IN  IF opened.ok THEN opened ELSE ErrOffset("exit")

(***************************************************************************)
(* The host files the operations are applied to                            *)
(***************************************************************************)
\* the longest run of filler bytes before and after the magic in `tail`
MaxPad == 2

Fill(n) == [k \in 1..n |-> Filler]

Tails ==
    { Fill(p) \o m \o Fill(s) :
        p \in 0..MaxPad, m \in {<<>>, SQUASHFS_MAGIC, DWARFS_MAGIC}, s \in {0, MaxPad} }

Sections == { [sh_offset |-> 64, sh_size |-> 6], [sh_offset |-> 192, sh_size |-> 9] }

SectionTables(n) == [1..n -> Sections]

\* e_shoff = 0: a header without a section header table
ElfLayouts ==
    { [e_shoff |-> 0, e_shnum |-> 0, e_shentsize |-> SECTION_HEADER_LEN, sh |-> <<>>] }
    \cup { [e_shoff |-> o, e_shnum |-> n, e_shentsize |-> SECTION_HEADER_LEN, sh |-> t] :
              o \in {64, 70}, n \in 1..2, t \in SectionTables(1) \cup SectionTables(2) }

Pres == {0, 128, 134, 192, 198, 201}

Hosts ==
    { [pre |-> p, tail |-> t, elf |-> e, e_shoff |-> l.e_shoff, e_shnum |-> l.e_shnum,
       e_shentsize |-> l.e_shentsize, sh |-> l.sh] :
        p \in Pres, t \in Tails, e \in BOOLEAN,
        l \in { x \in ElfLayouts : Len(x.sh) = x.e_shnum } }

\* the offsets a caller passes explicitly: the start of the file and the
\* positions at and shortly after the end of the filler
ExplicitOffsets(f) == {0} \cup { f.pre + k : k \in 0..MaxPad }

OptionalOffsets(f) == {None} \cup { Some(o) : o \in ExplicitOffsets(f) }

NoHost ==
    [pre |-> 0, tail |-> <<>>, elf |-> FALSE, e_shoff |-> 0, e_shnum |-> 0,
     e_shentsize |-> 0, sh |-> <<>>]

NoCall == [op |-> "none", offset |-> None]

archiveVars == <<fs, files, filter, cand, cur, visited, depth, pc>>

\* the parts of the state a specification does not use
NoName == output_name = None
NoWalk == tree = <<>> /\ stack = <<>> /\ out = <<>>
NoExtract == dest = <<>> /\ dest0 = <<>> /\ task = <<>> /\ run = 0 /\ faults = 0 /\ killed = 0

InitLocate ==
    /\ host \in Hosts
    /\ call = NoCall
    /\ ret = NoRet
    /\ fs = "none"
    /\ files = <<>>
    /\ filter = None
    /\ cand = None
    /\ cur = None
    /\ visited = {}
    /\ depth = 0
    /\ pc = "idle"
    /\ NoName /\ NoWalk /\ NoExtract

\* One operation is applied to the host file per run, as one command line does;
\* detect_filesystem_type alone may be called again on the unmodified file.
Returns(op, offset, result) ==
    /\ call = NoCall \/ (op = "detect_filesystem_type" /\ call.op = op)
    /\ call' = [op |-> op, offset |-> offset]
    /\ ret' = result
    /\ UNCHANGED <<host, archiveVars, nameVars, walkVars, extractVars>>

GetOffset == Returns("get_offset", None, get_offset(host))

FindSquashfsOffset == Returns("find_squashfs_offset", None, find_squashfs_offset(host))

FindDwarfsOffset == Returns("find_dwarfs_offset", None, find_dwarfs_offset(host))

DetectFilesystemType ==
    \E o \in ExplicitOffsets(host) :
        Returns("detect_filesystem_type", Some(o), detect_filesystem_type(host, o))

AppImageNew ==
    \E o \in OptionalOffsets(host) : Returns("AppImage::new", o, AppImage_new(host, o))

AppImageNewSquashfs ==
    \E o \in OptionalOffsets(host) :
        Returns("AppImage::new_squashfs", o, AppImage_new_squashfs(host, o))

AppImageNewDwarfs ==
    \E o \in OptionalOffsets(host) :
        Returns("AppImage::new_dwarfs", o, AppImage_new_dwarfs(host, o))

SquashFSNew ==
    \E o \in OptionalOffsets(host) : Returns("SquashFS::new", o, SquashFS_new(host, o))

Unsquashfs ==
    \E o \in OptionalOffsets(host) : Returns("Unsquashfs", o, unsquashfs_open(host, o))

DwarfsExtract ==
    \E o \in OptionalOffsets(host) : Returns("DwarfsExtract", o, dwarfs_extract_open(host, o))

NextLocate ==
    \/ GetOffset
    \/ FindSquashfsOffset
    \/ FindDwarfsOffset
    \/ DetectFilesystemType
    \/ AppImageNew
    \/ AppImageNewSquashfs
    \/ AppImageNewDwarfs
    \/ SquashFSNew
    \/ Unsquashfs
    \/ DwarfsExtract

SpecLocate == InitLocate /\ [][NextLocate]_vars

(***************************************************************************)
(* Claims about locating and opening the archive (SpecLocate)              *)
(***************************************************************************)
RECURSIVE MaxSectionEnd(_)
MaxSectionEnd(sections) ==
    IF sections = <<>> THEN 0
    ELSE Max2(SectionEnd(Head(sections)), MaxSectionEnd(Tail(sections)))

\* the end of the ELF image as the specification defines it
StructuralEnd(f) ==
    Max2(f.e_shoff + f.e_shnum * f.e_shentsize, MaxSectionEnd(SectionHeaders(f)))

\* C1: whenever get_offset succeeds it returns max(sectionTableEnd,
\* lastSectionEnd), lastSectionEnd being the largest sh_offset + sh_size over
\* ALL section headers, whatever their order in the table.
C1_GetOffsetIsMaxOverAllSections ==
    (call.op = "get_offset" /\ ret.ok) => ret.offset = StructuralEnd(host)

OpensWithOffset == {"AppImage::new", "AppImage::new_squashfs", "AppImage::new_dwarfs",
                    "SquashFS::new", "Unsquashfs"}

\* what format detection and the backend open at the offset alone decide
OpensAt(op, f, o) ==
    CASE op = "AppImage::new" ->
            LET t == detect_filesystem_type(f, o)
            IN  /\ t.ok
                /\ t.kind = "SquashFS" => SquashfsReaderOpens(f, o)
                /\ t.kind = "DwarFS" => DwarfsArchiveOpens(f, o)
      [] op = "AppImage::new_dwarfs" -> DwarfsArchiveOpens(f, o)
      [] OTHER -> SquashfsReaderOpens(f, o)

\* C2: with an explicit offset the open succeeds exactly when format detection
\* and the backend open at that offset succeed; a failure of get_offset or of
\* the magic scan on the host file never makes it fail.
C2_ExplicitOffsetBypassesLocator ==
    (call.op \in OpensWithOffset /\ call.offset.some)
        => (ret.ok <=> OpensAt(call.op, host, call.offset.val))

Occurrences(f, magic) == { pos \in 0..FileLen(f) : MatchesAt(f, magic, pos) }

FirstOccurrence(f, magic, notFound) ==
    IF Occurrences(f, magic) = {} THEN ErrOffset(notFound)
    ELSE OkOffset(Min(Occurrences(f, magic)))

\* C3: each magic scan returns the first occurrence of its magic at any byte
\* position, and the not-found error only when the magic occurs nowhere.
C3_ScanFindsFirstOccurrenceAnywhere ==
    /\ call.op = "find_squashfs_offset"
            => ret = FirstOccurrence(host, SQUASHFS_MAGIC, "NoSquashFsFound")
    /\ call.op = "find_dwarfs_offset"
            => ret = FirstOccurrence(host, DWARFS_MAGIC, "NoDwarFsFound")

\* a host whose ELF image parses and is followed at once by an archive that
\* begins with the magic, the magic occurring nowhere before it
ArchiveAppended(f, magic) ==
    /\ get_offset(f).ok
    /\ Occurrences(f, magic) # {}
    /\ Min(Occurrences(f, magic)) = StructuralEnd(f)

\* C4: on an ELF host followed by an appended archive, get_offset and the
\* magic scan of the archive's format return the same offset.
C4_StructuralAndScanAgree ==
    /\ (call.op = "find_squashfs_offset" /\ ArchiveAppended(host, SQUASHFS_MAGIC))
            => ret = get_offset(host)
    /\ (call.op = "find_dwarfs_offset" /\ ArchiveAppended(host, DWARFS_MAGIC))
            => ret = get_offset(host)

DetectedAs(kind) == call.op = "detect_filesystem_type" /\ ret.ok /\ ret.kind = kind

C5_DetectSixBytes ==
    call.op = "detect_filesystem_type" =>
        IF CanRead(host, call.offset.val, DETECT_LEN)
        THEN /\ DetectedAs("SquashFS") <=> MatchesAt(host, SQUASHFS_MAGIC, call.offset.val)
             /\ DetectedAs("DwarFS") <=> MatchesAt(host, DWARFS_MAGIC, call.offset.val)
             /\ ~ret.ok => ret.err = "NoFilesystemFound"
        ELSE ~ret.ok /\ ret.err = "Io"

\* C5, repeated calls: a second call at the same offset returns what the first did
C5_DetectRepeats ==
    [][(call.op = "detect_filesystem_type" /\ call'.op = call.op /\ call'.offset = call.offset)
        => ret' = ret]_vars

UPPER == <<"A", "B", "C", "D", "E", "F", "G", "H", "I", "J", "K", "L", "M", "N", "O", "P", "Q", "R", "S", "T", "U", "V", "W", "X", "Y", "Z">>
LOWER == <<"a", "b", "c", "d", "e", "f", "g", "h", "i", "j", "k", "l", "m", "n", "o", "p", "q", "r", "s", "t", "u", "v", "w", "x", "y", "z">>

\* char::to_lowercase on ASCII
ToLowerChar(c) ==
    IF \E i \in 1..Len(UPPER) : UPPER[i] = c
    THEN LOWER[CHOOSE i \in 1..Len(UPPER) : UPPER[i] = c]
    ELSE c

to_lowercase(s) == [i \in 1..Len(s) |-> ToLowerChar(s[i])]

starts_with(s, p) == Len(p) <= Len(s) /\ SubSeq(s, 1, Len(p)) = p

ends_with(s, p) == Len(p) <= Len(s) /\ SubSeq(s, Len(s) - Len(p) + 1, Len(s)) = p

contains(s, p) == \E i \in 0..(Len(s) - Len(p)) : SubSeq(s, i + 1, i + Len(p)) = p

\* Path::components: the names between separators; repeated separators vanish
RECURSIVE SplitNames(_, _)
SplitNames(p, name) ==
    LET done == IF name = <<>> THEN <<>> ELSE <<name>>
    IN  IF p = <<>> THEN done
        ELSE IF Head(p) = "/" THEN done \o SplitNames(Tail(p), <<>>)
        ELSE SplitNames(Tail(p), Append(name, Head(p)))

Components(p) == [root |-> (p # <<>> /\ Head(p) = "/"), names |-> SplitNames(p, <<>>)]

\* PathBuf's == (and its Hash) compare components
PathEq(a, b) == Components(a) = Components(b)

DIRICON == <<"/", ".", "D", "i", "r", "I", "c", "o", "n">>
ICONS_DIR == <<"/", "u", "s", "r", "/", "s", "h", "a", "r", "e", "/", "i", "c", "o", "n", "s", "/">>
ICONS_PREFIX == <<"/", "u", "s", "r", "/", "s", "h", "a", "r", "e", "/", "i", "c", "o", "n", "s">>
EXT_PNG == <<".", "p", "n", "g">>
EXT_SVG == <<".", "s", "v", "g">>
EXT_DESKTOP == <<".", "d", "e", "s", "k", "t", "o", "p">>
APPDATA_XML == <<"a", "p", "p", "d", "a", "t", "a", ".", "x", "m", "l">>
METAINFO_XML == <<"m", "e", "t", "a", "i", "n", "f", "o", ".", "x", "m", "l">>

(***************************************************************************)
(* Entries.  A size is a u64 held as hi * 2^32 + lo.                       *)
(***************************************************************************)
U64(hi, lo) == [hi |-> hi, lo |-> lo]

\* `as u32` keeps the low 32 bits; `as u64` of a u32 widens it again
AsU32(n) == U64(0, n.lo)

U64Leq(a, b) == a.hi < b.hi \/ (a.hi = b.hi /\ a.lo <= b.lo)

Entry(path, size, kind, target) == [path |-> path, size |-> size, kind |-> kind, target |-> target]

\* SquashFS::entries over reader.files()
SquashFSEntry(node) ==
    Entry(node.fullpath,
          IF node.inner = "File" THEN AsU32(node.file_len) ELSE U64(0, 0),
          CASE node.inner = "File" -> "File"
            [] node.inner = "Dir" -> "Directory"
            [] node.inner = "Symlink" -> "Symlink"
            [] OTHER -> "Unknown",
          IF node.inner = "Symlink" THEN <<"/">> \o node.link ELSE <<>>)

SquashFSEntries(nodes) == [i \in 1..Len(nodes) |-> SquashFSEntry(nodes[i])]

\* what DwarFS::walk_dir emits for one inode
DwarFSEntry(node) ==
    Entry(node.fullpath,
          IF node.inner = "File" THEN node.file_len ELSE U64(0, 0),
          CASE node.inner = "File" -> "File"
            [] node.inner = "Dir" -> "Directory"
            [] node.inner = "Symlink" -> "Symlink"
            [] node.inner = "Device" -> "Device"
            [] node.inner = "Ipc" -> "Ipc"
            [] OTHER -> "Unknown",
          IF node.inner = "Symlink" THEN node.link ELSE <<>>)

DwarFSEntries(nodes) == [i \in 1..Len(nodes) |-> DwarFSEntry(nodes[i])]

\* AppImage::entries: the unified view of either backend
AppImageEntry(backend, e) ==
    IF backend = "SquashFS"
    THEN Entry(e.path, e.size, e.kind, e.target)
    ELSE Entry(e.path, e.size,
               IF e.kind \in {"File", "Directory", "Symlink"} THEN e.kind ELSE "Unknown",
               e.target)

AppImageEntries(backend, nodes) ==
    IF backend = "SquashFS"
    THEN [i \in 1..Len(nodes) |-> AppImageEntry(backend, SquashFSEntries(nodes)[i])]
    ELSE [i \in 1..Len(nodes) |-> AppImageEntry(backend, DwarFSEntries(nodes)[i])]

(***************************************************************************)
(* Iterator adaptors                                                       *)
(***************************************************************************)
Max(S) == CHOOSE x \in S : \A y \in S : y <= x

\* Iterator::find: the first element that passes
Find(s, Test(_)) ==
    LET hits == { i \in 1..Len(s) : Test(s[i]) }
    IN  IF hits = {} THEN None ELSE Some(s[Min(hits)])

\* the first element instead of the largest
FirstElement(s) == IF s = <<>> THEN None ELSE Some(s[1])

\* of several maxima the first
FirstMaxBySize(s) ==
    LET best == { i \in 1..Len(s) : \A j \in 1..Len(s) : U64Leq(s[j].size, s[i].size) }
    IN  IF s = <<>> THEN None ELSE Some(s[Min(best)])

\* Iterator::max_by_key(|entry| entry.size): of several maxima the last
MaxBySize(s) ==
    LET best == { i \in 1..Len(s) : \A j \in 1..Len(s) : U64Leq(s[j].size, s[i].size) }
    IN  IF s = <<>> THEN None ELSE Some(s[Max(best)])

\* Option::or_else
OrElse(a, b) == IF a.some THEN a ELSE b

(***************************************************************************)
(* The resource locator of AppImage                                        *)
(***************************************************************************)
\* the path argument is already lower-cased; the filter is used as given
filter_path(flt, path) == IF flt.some THEN contains(path, flt.val) ELSE TRUE

search_diricon(E) == Find(E, LAMBDA entry : entry.path = DIRICON)

find_largest_icon_path(E, flt) ==
    LET IsPng(entry) ==
            LET path == to_lowercase(entry.path)
            IN  starts_with(path, ICONS_DIR) /\ filter_path(flt, path) /\ ends_with(path, EXT_PNG)
        IsSvg(entry) ==
            LET path == to_lowercase(entry.path)
            IN  starts_with(path, ICONS_PREFIX) /\ filter_path(flt, path) /\ ends_with(path, EXT_SVG)
        png_entry == MaxBySize(SelectSeq(E, IsPng))
    IN  IF png_entry.some THEN png_entry ELSE Find(E, IsSvg)

find_png_icon(E, flt) ==
    LET IsPng(entry) ==
            LET p == to_lowercase(entry.path)
            IN  filter_path(flt, p) /\ ends_with(p, EXT_PNG)
    IN  MaxBySize(SelectSeq(E, IsPng))

find_svg_icon(E, flt) ==
    LET IsSvg(entry) ==
            LET path == to_lowercase(entry.path)
            IN  filter_path(flt, path) /\ ends_with(path, EXT_SVG)
    IN  Find(E, IsSvg)

\* find_icon with the filter applied to the /.DirIcon step as well
FindIconFilteredDirIcon(E, flt) ==
    LET diricon == search_diricon(E)
    IN  OrElse(IF diricon.some /\ filter_path(flt, to_lowercase(diricon.val.path))
               THEN diricon ELSE None,
               OrElse(find_largest_icon_path(E, flt),
                      OrElse(find_png_icon(E, flt), find_svg_icon(E, flt))))

\* find_icon that goes on to the next step when /.DirIcon is a symlink whose
\* target is no entry
FindIconSkipDangling(E, flt) ==
    LET diricon == search_diricon(E)
        dangling == /\ diricon.some
                    /\ diricon.val.kind = "Symlink"
                    /\ ~Find(E, LAMBDA e : PathEq(e.path, diricon.val.target)).some
    IN  OrElse(IF dangling THEN None ELSE diricon,
               OrElse(find_largest_icon_path(E, flt),
                      OrElse(find_png_icon(E, flt), find_svg_icon(E, flt))))

\* find_icon up to the and_then: the candidate that is handed to resolve_symlink
find_icon_candidate(E, flt) ==
    OrElse(search_diricon(E),
           OrElse(find_largest_icon_path(E, flt),
                  OrElse(find_png_icon(E, flt), find_svg_icon(E, flt))))

find_desktop_candidate(E, flt) ==
    LET IsDesktop(entry) ==
            LET path == to_lowercase(entry.path)
            IN  filter_path(flt, path) /\ ends_with(path, EXT_DESKTOP)
    IN  Find(E, IsDesktop)

find_appstream_candidate(E, flt) ==
    LET IsAppstream(entry) ==
            LET path == to_lowercase(entry.path)
            IN  filter_path(flt, path)
                /\ (ends_with(path, APPDATA_XML) \/ ends_with(path, METAINFO_XML))
    IN  Find(E, IsAppstream)

(***************************************************************************)
(* Symlink resolution, one nested call per step                            *)
(***************************************************************************)
RetOk(v) == [ok |-> TRUE, value |-> v, err |-> "none"]
RetErr(e) == [ok |-> FALSE, value |-> None, err |-> e]

\* the deepest nesting of resolve_symlink calls the stack has room for
MaxDepth == 6

Entries == AppImageEntries(fs, files)

BackendEntries == IF fs = "SquashFS" THEN SquashFSEntries(files) ELSE DwarFSEntries(files)

Done(result) ==
    /\ ret' = result
    /\ pc' = "done"
    /\ cur' = None
    /\ UNCHANGED <<depth, visited>>

\* .and_then(|entry| self.resolve_symlink(entry)) on the selected candidate
Select(op, candidate) ==
    /\ pc = "idle"
    /\ fs # "none"
    /\ call' = [op |-> op, offset |-> None]
    /\ cand' = candidate
    /\ IF candidate.some
       THEN /\ pc' = "resolve"
            /\ cur' = candidate
            /\ depth' = 1
            /\ UNCHANGED <<ret, visited>>
       ELSE Done(RetOk(None))
    /\ UNCHANGED <<host, fs, files, filter, nameVars, walkVars, extractVars>>

FindIcon == Select("find_icon", find_icon_candidate(Entries, filter))

FindDesktop == Select("find_desktop", find_desktop_candidate(Entries, filter))

FindAppstream == Select("find_appstream", find_appstream_candidate(Entries, filter))

\* resolve_symlink that returns the entry at the target without the nested call
ResolveSymlinkOneHop ==
    /\ pc = "resolve"
    /\ LET entry == cur.val
           found == Find(Entries, LAMBDA e : PathEq(e.path, entry.target))
       IN  IF entry.kind = "Symlink" THEN Done(RetOk(found)) ELSE Done(RetOk(Some(entry)))
    /\ UNCHANGED <<host, call, fs, files, filter, cand, nameVars, walkVars, extractVars>>

\* one call of AppImage::resolve_symlink(entry), entry = cur.val: a symlink
\* whose target is an entry makes the nested call on that entry
ResolveSymlink ==
    /\ pc = "resolve"
    /\ LET entry == cur.val
           found == Find(Entries, LAMBDA e : PathEq(e.path, entry.target))
       IN  IF entry.kind = "Symlink"
           THEN IF found.some
                THEN IF depth < MaxDepth
                     THEN /\ cur' = found
                          /\ depth' = depth + 1
                          /\ UNCHANGED <<ret, pc, visited>>
                     ELSE Done(RetErr("StackOverflow"))
                ELSE Done(RetOk(None))
           ELSE Done(RetOk(Some(entry)))
    /\ UNCHANGED <<host, call, fs, files, filter, cand, nameVars, walkVars, extractVars>>

\* SquashFS::resolve_symlink / DwarFS::resolve_symlink on an entry of entries()
BackendResolveSymlink(backend, op) ==
    /\ pc = "idle"
    /\ fs = backend
    /\ \E i \in 1..Len(files) :
        LET entry == BackendEntries[i]
        IN  /\ call' = [op |-> op, offset |-> None]
            /\ cand' = Some(entry)
            /\ IF entry.kind = "Symlink"
               THEN /\ visited' = {Components(entry.path)}
                    /\ cur' = Some(entry.target)
                    /\ pc' = "follow"
                    /\ depth' = 1
                    /\ UNCHANGED ret
               ELSE Done(RetOk(None))
    /\ UNCHANGED <<host, fs, files, filter, nameVars, walkVars, extractVars>>

SquashFSResolveSymlink == BackendResolveSymlink("SquashFS", "SquashFS::resolve_symlink")

DwarFSResolveSymlink == BackendResolveSymlink("DwarFS", "DwarFS::resolve_symlink")

\* follow_symlink without the visited test: it goes on while the stack has room
FollowSymlinkUnchecked ==
    /\ pc = "follow"
    /\ LET target == cur.val
           found == Find(BackendEntries, LAMBDA e : PathEq(e.path, target))
       IN  /\ visited' = visited \cup {Components(target)}
           /\ IF found.some /\ found.val.kind = "Symlink"
              THEN IF depth < MaxDepth
                   THEN /\ cur' = Some(found.val.target)
                        /\ depth' = depth + 1
                        /\ UNCHANGED <<ret, pc>>
                   ELSE /\ ret' = RetErr("StackOverflow")
                        /\ pc' = "done"
                        /\ cur' = None
                        /\ UNCHANGED depth
              ELSE /\ ret' = RetOk(found)
                   /\ pc' = "done"
                   /\ cur' = None
                   /\ UNCHANGED depth
    /\ UNCHANGED <<host, call, fs, files, filter, cand, nameVars, walkVars, extractVars>>

\* one call of follow_symlink(target, visited), target = cur.val
FollowSymlink ==
    /\ pc = "follow"
    /\ LET target == cur.val
           found == Find(BackendEntries, LAMBDA e : PathEq(e.path, target))
       IN  IF Components(target) \in visited
           THEN Done(RetErr("SymlinkError"))
           ELSE IF found.some
                THEN IF found.val.kind = "Symlink"
                     THEN /\ visited' = visited \cup {Components(target)}
                          /\ cur' = Some(found.val.target)
                          /\ depth' = depth + 1
                          /\ UNCHANGED <<ret, pc>>
                     ELSE /\ visited' = visited \cup {Components(target)}
                          /\ ret' = RetOk(found)
                          /\ pc' = "done"
                          /\ cur' = None
                          /\ UNCHANGED depth
                ELSE /\ visited' = visited \cup {Components(target)}
                     /\ ret' = RetOk(None)
                     /\ pc' = "done"
                     /\ cur' = None
                     /\ UNCHANGED depth
    /\ UNCHANGED <<host, call, fs, files, filter, cand, nameVars, walkVars, extractVars>>

(***************************************************************************)
(* The archives the operations are applied to                              *)
(***************************************************************************)
\* the largest number of nodes in an archive
MaxEntries == 3

P_DESKTOP == <<"/", "a", ".", "d", "e", "s", "k", "t", "o", "p">>
P_APPDATA == <<"/", "a", ".", "a", "p", "p", "d", "a", "t", "a", ".", "x", "m", "l">>
P_B == <<"/", "b">>
P_MISSING == <<"/", "m", "i", "s", "s", "i", "n", "g">>
\* a relative link target, as ln -s b writes it
REL_B == <<"b">>
P_ICON_A == <<"/", "u", "s", "r", "/", "s", "h", "a", "r", "e", "/", "i", "c", "o", "n", "s", "/", "a", ".", "p", "n", "g">>
P_ICON_B == <<"/", "u", "s", "r", "/", "s", "h", "a", "r", "e", "/", "i", "c", "o", "n", "s", "/", "B", ".", "P", "N", "G">>
P_ICON_SVG == <<"/", "u", "s", "r", "/", "s", "h", "a", "r", "e", "/", "i", "c", "o", "n", "s", "/", "c", ".", "s", "v", "g">>
P_EXTRA_SVG == <<"/", "u", "s", "r", "/", "s", "h", "a", "r", "e", "/", "i", "c", "o", "n", "s", "-", "e", "x", "t", "r", "a", "/", "d", ".", "s", "v", "g">>
P_OPT_PNG == <<"/", "o", "p", "t", "/", "e", ".", "p", "n", "g">>
P_OPT_SVG == <<"/", "o", "p", "t", "/", "f", ".", "s", "v", "g">>

FileNode(path, len) == [fullpath |-> path, inner |-> "File", link |-> <<>>, file_len |-> U64(0, len)]
LinkNode(path, link) == [fullpath |-> path, inner |-> "Symlink", link |-> link, file_len |-> U64(0, 0)]

\* nodes for the symlink chains: every path a file or a link to one of three targets
ChainNodes ==
    { FileNode(p, 10) : p \in {DIRICON, P_DESKTOP, P_APPDATA, P_B} }
    \cup { LinkNode(p, t) : p \in {DIRICON, P_DESKTOP, P_APPDATA, P_B}, t \in {DIRICON, P_B, P_MISSING} }
    \cup { LinkNode(p, REL_B) : p \in {DIRICON, P_DESKTOP} }

\* nodes for the icon search
IconNodes ==
    { FileNode(p, n) : p \in {P_ICON_A, P_ICON_B, P_OPT_PNG}, n \in {10, 20} }
    \cup { FileNode(p, 10) : p \in {DIRICON, P_ICON_SVG, P_EXTRA_SVG, P_OPT_SVG} }
    \cup { LinkNode(DIRICON, P_MISSING), LinkNode(P_ICON_A, P_OPT_PNG) }

\* a file of 2^32 + len bytes
BigFileNode(path, len) == [fullpath |-> path, inner |-> "File", link |-> <<>>, file_len |-> U64(1, len)]

\* nodes for the sizes: files below and above 2^32 bytes
SizeNodes ==
    { FileNode(P_ICON_A, 10), FileNode(P_OPT_PNG, 10),
      BigFileNode(P_ICON_B, 5), BigFileNode(P_OPT_PNG, 5) }

P_B_DESKTOP == <<"/", "b", ".", "d", "e", "s", "k", "t", "o", "p">>
P_B_METAINFO == <<"/", "b", ".", "m", "e", "t", "a", "i", "n", "f", "o", ".", "x", "m", "l">>

\* nodes for the first match: a dangling symlink and a file that match the same search
MatchNodes ==
    { LinkNode(P_DESKTOP, P_MISSING), FileNode(P_B_DESKTOP, 10),
      LinkNode(P_APPDATA, P_MISSING), FileNode(P_B_METAINFO, 10) }

DistinctPaths(s) == \A i, j \in 1..Len(s) : s[i].fullpath = s[j].fullpath => i = j

\* the sequences of at most n nodes of N with pairwise distinct paths
RECURSIVE NodeSeqs(_, _)
NodeSeqs(N, n) ==
    IF n = 0 THEN {<<>>}
    ELSE LET shorter == NodeSeqs(N, n - 1)
         IN  shorter \cup { s \in { Append(t, x) : t \in shorter, x \in N } :
                              Len(s) = n /\ DistinctPaths(s) }

F_ICON == <<"i", "c", "o", "n">>
F_OPT == <<"o", "p", "t">>
F_UPPER == <<"A">>

InitArchive ==
    /\ host = NoHost
    /\ call = NoCall
    /\ ret = NoRet
    /\ fs \in {"SquashFS", "DwarFS"}
    /\ \/ files \in NodeSeqs(ChainNodes, MaxEntries) /\ filter \in {None, Some(F_UPPER)}
       \/ /\ files \in NodeSeqs(IconNodes, MaxEntries)
          /\ filter \in {None, Some(F_ICON), Some(F_OPT), Some(F_UPPER)}
       \/ files \in NodeSeqs(SizeNodes, MaxEntries) /\ filter = None
       \/ files \in NodeSeqs(MatchNodes, MaxEntries) /\ filter = None
    /\ cand = None
    /\ cur = None
    /\ visited = {}
    /\ depth = 0
    /\ pc = "idle"
    /\ NoName /\ NoWalk /\ NoExtract

NextArchive ==
    \/ FindIcon
    \/ FindDesktop
    \/ FindAppstream
    \/ ResolveSymlink
    \/ SquashFSResolveSymlink
    \/ DwarFSResolveSymlink
    \/ FollowSymlink

SpecArchive == InitArchive /\ [][NextArchive]_vars

(***************************************************************************)
(* Claims about symlink resolution and resource discovery (SpecArchive)    *)
(***************************************************************************)
FindOps == {"find_icon", "find_desktop", "find_appstream"}
BackendResolveOps == {"SquashFS::resolve_symlink", "DwarFS::resolve_symlink"}

\* the entries the called resolver looks its targets up in
ResolverEntries == IF call.op \in FindOps THEN Entries ELSE BackendEntries

Lookup(E, path) == Find(E, LAMBDA e : PathEq(e.path, path))

\* C6: a resolver returns None for a non-symlink entry, C for a chain
\* A->B->C that ends in the file C, the symlink-cycle error for A->A, and None
\* for A->missing; so do the two backend resolvers and the resolver over the
\* unified entries that the find_* operations use.
C6_ResolveSymlinkCases ==
    (pc = "done" /\ call.op \in (FindOps \cup BackendResolveOps) /\ cand.some) =>
        LET E == ResolverEntries
            a == cand.val
            b == Lookup(E, a.target)
            c == Lookup(E, b.val.target)
        IN  /\ a.kind # "Symlink" => ret = RetOk(None)
            /\ (a.kind = "Symlink" /\ PathEq(a.target, a.path)) => ret = RetErr("SymlinkError")
            /\ (a.kind = "Symlink" /\ ~b.some) => ret = RetOk(None)
            /\ (a.kind = "Symlink" /\ b.some /\ b.val.kind = "Symlink" /\ ~PathEq(a.target, a.path)
                    /\ c.some /\ c.val.kind = "File")
                  => ret = RetOk(c)

\* following the targets from the entry comes back to a path already passed
RECURSIVE Revisits(_, _, _)
Revisits(E, entry, seen) ==
    IF entry.kind # "Symlink" THEN FALSE
    ELSE IF Components(entry.target) \in seen THEN TRUE
    ELSE LET next == Lookup(E, entry.target)
         IN  IF next.some THEN Revisits(E, next.val, seen \cup {Components(entry.target)})
             ELSE FALSE

CyclicCandidate == cand.some /\ Revisits(Entries, cand.val, {Components(cand.val.path)})

\* C7: a find_* operation whose candidate is a symlink with a cyclic chain
\* (A->A, A->B->A) ends with the symlink-cycle outcome.
C7_CyclicCandidateEndsInSymlinkCycle ==
    (call.op \in FindOps /\ pc = "done" /\ CyclicCandidate) => ret = RetErr("SymlinkError")

HasDirIcon == \E i \in 1..Len(Entries) : Entries[i].path = DIRICON

\* C8: when an entry has the exact path /.DirIcon, find_icon selects the first
\* such entry whatever the filter is (none, one that matches the path, one that
\* does not), and returns it when it is no symlink.
C8_DirIconWhateverTheFilter ==
    (call.op = "find_icon" /\ HasDirIcon) =>
        /\ cand = search_diricon(Entries)
        /\ (pc = "done" /\ cand.val.kind # "Symlink") => ret = RetOk(cand)

C8_Witness ==
    /\ call.op = "find_icon"
    /\ pc = "done"
    /\ filter = Some(F_OPT)
    /\ Len(files) > 1
    /\ ~contains(to_lowercase(DIRICON), F_OPT)
    /\ ret.ok /\ ret.value.some /\ ret.value.val.path = DIRICON

\* what the claims call a match: the lower-cased path contains the filter
PassesFilter(e) == filter.some => contains(to_lowercase(e.path), filter.val)

IsExt(e, ext) == ends_with(to_lowercase(e.path), ext)

UnderIcons(e) == starts_with(to_lowercase(e.path), ICONS_DIR)

EntrySet == { Entries[i] : i \in 1..Len(Entries) }

IconPngs == { e \in EntrySet : UnderIcons(e) /\ IsExt(e, EXT_PNG) /\ PassesFilter(e) }
IconSvgs == { e \in EntrySet : UnderIcons(e) /\ IsExt(e, EXT_SVG) /\ PassesFilter(e) }
AnyPngs == { e \in EntrySet : IsExt(e, EXT_PNG) /\ PassesFilter(e) }
AnySvgs == { e \in EntrySet : IsExt(e, EXT_SVG) /\ PassesFilter(e) }

Largest(S, e) == e \in S /\ \A m \in S : U64Leq(m.size, e.size)

FirstOf(S, e) ==
    /\ e \in S
    /\ \A i, j \in 1..Len(Entries) : (Entries[i] = e /\ Entries[j] \in S) => i <= j

\* C9 as stated: without /.DirIcon, find_icon returns an entry of maximum size
\* among the filtered PNGs under /usr/share/icons/.
C9_ReturnsLargestIconPng ==
    (call.op = "find_icon" /\ pc = "done" /\ ~HasDirIcon /\ IconPngs # {}) =>
        /\ ret.ok
        /\ ret.value.some
        /\ Largest(IconPngs, ret.value.val)

\* C9 as amended: without /.DirIcon, the candidate find_icon selects is an
\* entry of maximum Entry.size among the filtered PNGs under /usr/share/icons/,
\* in any traversal order, and find_icon returns it when it is no symlink.
C9_SelectsLargestIconPng ==
    (call.op = "find_icon" /\ ~HasDirIcon /\ IconPngs # {}) =>
        /\ cand.some
        /\ Largest(IconPngs, cand.val)
        /\ (pc = "done" /\ cand.val.kind # "Symlink") => ret = RetOk(cand)

C9_Witness ==
    /\ call.op = "find_icon"
    /\ pc = "done"
    /\ ~HasDirIcon
    /\ Len(files) = 2
    /\ UnderIcons(Entries[1]) /\ Entries[1].size = U64(0, 20)
    /\ UnderIcons(Entries[2]) /\ Entries[2].size = U64(0, 10)
    /\ ret = RetOk(Some(Entries[1]))

\* C10: the candidate of find_icon comes from the first step that has one:
\* (1) /.DirIcon, (2) the largest PNG under /usr/share/icons/, else the first
\* SVG under /usr/share/icons/, (3) the largest PNG anywhere, (4) the first SVG
\* anywhere; without any, there is no candidate.
C10_OrderedFallback ==
    call.op = "find_icon" =>
        IF HasDirIcon THEN cand.some /\ cand.val.path = DIRICON
        ELSE IF IconPngs # {} THEN cand.some /\ Largest(IconPngs, cand.val)
        ELSE IF IconSvgs # {} THEN cand.some /\ FirstOf(IconSvgs, cand.val)
        ELSE IF AnyPngs # {} THEN cand.some /\ Largest(AnyPngs, cand.val)
        ELSE IF AnySvgs # {} THEN cand.some /\ FirstOf(AnySvgs, cand.val)
        ELSE ~cand.some

\* the case-insensitive substring test: lower-case(p) contains lower-case(f)
PassesFilterNoCase(e) ==
    filter.some => contains(to_lowercase(e.path), to_lowercase(filter.val))

\* C11: the filter is a case-insensitive substring test, so find_desktop
\* selects the first entry whose lower-cased path ends with .desktop and
\* contains the lower-cased filter, and find_appstream the first whose
\* lower-cased path ends with appdata.xml or metainfo.xml and contains it; a
\* None filter passes every entry.
C11_FilterIgnoresCase ==
    /\ call.op = "find_desktop" =>
            cand = Find(Entries, LAMBDA e : PassesFilterNoCase(e) /\ IsExt(e, EXT_DESKTOP))
    /\ call.op = "find_appstream" =>
            cand = Find(Entries, LAMBDA e : PassesFilterNoCase(e)
                                            /\ (IsExt(e, APPDATA_XML) \/ IsExt(e, METAINFO_XML)))

\* C20: once an operation has listed the entries, every Symlink entry of the
\* backend's entries() and of the unified entries() has as its target the
\* link recorded in the archive, compared as paths: a relative link stays
\* relative, an absolute link stays absolute, nothing is prepended.
C20_SymlinkTargetIsRecordedLink ==
    call # NoCall =>
        \A i \in 1..Len(files) :
            files[i].inner = "Symlink" =>
                /\ BackendEntries[i].kind = "Symlink"
                /\ PathEq(BackendEntries[i].target, files[i].link)
                /\ Entries[i].kind = "Symlink"
                /\ PathEq(Entries[i].target, files[i].link)

\* where the chain of exact-path lookups from the entry ends: the first entry
\* on it that is no symlink, or None when a target is no entry's path
RECURSIVE ChainEnd(_, _, _)
ChainEnd(E, entry, fuel) ==
    IF entry.kind # "Symlink" THEN Some(entry)
    ELSE LET next == Lookup(E, entry.target)
         IN  IF ~next.some \/ fuel = 0 THEN None ELSE ChainEnd(E, next.val, fuel - 1)

\* the distinct paths of the archive
EntryPaths == { Components(files[i].fullpath) : i \in 1..Len(files) }

\* C22: SquashFS/DwarFS resolve_symlink on a symlink entry: every call of
\* follow_symlink adds one path to the visited set, so at most (number of
\* distinct paths + 1) calls are made; the resolution ends with the
\* symlink-cycle error exactly when the chain of targets comes back to a path
\* already passed, and otherwise with the first entry of the chain that is no
\* symlink, or None when a target is missing.
C22_BackendResolutionTerminates ==
    (call.op \in BackendResolveOps /\ cand.val.kind = "Symlink") =>
        LET cyclic == Revisits(BackendEntries, cand.val, {Components(cand.val.path)})
        IN  /\ depth <= Cardinality(EntryPaths) + 1
            /\ pc = "follow" => Cardinality(visited) = depth
            /\ pc = "done" =>
                  /\ ret = RetErr("SymlinkError") <=> cyclic
                  /\ ~cyclic => ret = RetOk(ChainEnd(BackendEntries, cand.val, Len(files)))

C22_Witness ==
    /\ call.op \in BackendResolveOps
    /\ pc = "done"
    /\ Len(files) = 3
    /\ depth = 3
    /\ ret = RetErr("SymlinkError")
    /\ \A i \in 1..Len(files) : ~PathEq(BackendEntries[i].target, cand.val.path)

\* C21: once an operation has listed the entries, the size of every File entry
\* of the backend's entries() and of the unified entries() is the file's
\* length in bytes as a 64-bit count, also for a file of 2^32 bytes or more,
\* and the PNG that find_icon selects is one of the largest true length.
C21_SizeIsFileLength ==
    call # NoCall =>
        /\ \A i \in 1..Len(files) :
              files[i].inner = "File" =>
                  /\ BackendEntries[i].size = files[i].file_len
                  /\ Entries[i].size = files[i].file_len
        /\ (call.op = "find_icon" /\ ~HasDirIcon /\ IconPngs # {}) =>
              \E i \in 1..Len(files) :
                  /\ cand = Some(Entries[i])
                  /\ \A j \in 1..Len(files) :
                        Entries[j] \in IconPngs => U64Leq(files[j].file_len, files[i].file_len)

\* C23: what step 2 of find_icon (find_largest_icon_path) selects lies under
\* /usr/share/icons/, whether it is a PNG or, in the fallback, an SVG: an SVG
\* whose path only begins with the characters /usr/share/icons is not selected.
C23_SvgFallbackUnderIconsDirectory ==
    call.op = "find_icon" =>
        LET step2 == find_largest_icon_path(Entries, filter)
        IN  /\ step2.some => UnderIcons(step2.val)
            /\ (~HasDirIcon /\ step2.some) => cand = step2

\* C26: an entry that find_icon, find_desktop or find_appstream returns is no
\* symlink, is one of the entries that entries() yields, and is where the
\* chain of exact-path lookups from the selected candidate ends; no step of an
\* operation changes the archive's entries.
C26_ReturnedEntryIsTerminal ==
    /\ []((call.op \in FindOps /\ pc = "done" /\ ret.ok /\ ret.value.some) =>
              /\ ret.value.val.kind # "Symlink"
              /\ ret.value.val \in EntrySet
              /\ cand.some
              /\ ret.value = ChainEnd(Entries, cand.val, Len(files)))
    /\ [][files' = files /\ fs' = fs /\ filter' = filter]_vars

C26_Witness ==
    /\ call.op \in FindOps
    /\ pc = "done"
    /\ depth = 3
    /\ cand.val.kind = "Symlink"
    /\ ret.ok /\ ret.value.some
    /\ ret.value.val.kind = "File"
    /\ ~PathEq(ret.value.val.path, cand.val.target)

\* the last of the entries of S of maximum size, in the order of entries()
LastLargest(S) ==
    Entries[Max({ i \in 1..Len(Entries) : Largest(S, Entries[i]) })]

Dangling(entry) ==
    /\ entry.kind = "Symlink"
    /\ ~Revisits(Entries, entry, {Components(entry.path)})
    /\ ~ChainEnd(Entries, entry, Len(files)).some

\* C28: the symlink resolution is applied to the candidate of the first step
\* that has one and no later step is tried: find_icon returns None when
\* /.DirIcon is a symlink whose chain ends at a missing path, whatever icons
\* the archive holds besides; find_desktop and find_appstream return None when
\* their first match is such a symlink.
C28_NoStepAfterDanglingCandidate ==
    LET diricon == search_diricon(Entries)
        desktop == Find(Entries, LAMBDA e : PassesFilter(e) /\ IsExt(e, EXT_DESKTOP))
        appstream == Find(Entries, LAMBDA e : PassesFilter(e)
                                              /\ (IsExt(e, APPDATA_XML) \/ IsExt(e, METAINFO_XML)))
        first == CASE call.op = "find_icon" -> diricon
                   [] call.op = "find_desktop" -> desktop
                   [] call.op = "find_appstream" -> appstream
                   [] OTHER -> None
    IN  (/\ call.op \in FindOps
         /\ \E i \in 1..Len(files) : files[i].inner = "Symlink"
         /\ first.some
         /\ Dangling(first.val)) =>
            /\ cand = first
            /\ pc = "done" => ret = RetOk(None)

C28_Witness ==
    /\ call.op = "find_icon"
    /\ pc = "done"
    /\ HasDirIcon
    /\ Dangling(search_diricon(Entries).val)
    /\ IconPngs # {}
    /\ ret = RetOk(None)

(***************************************************************************)
(* The output file name of an extracted resource                           *)
(***************************************************************************)
\* Path::file_name: the last component (every path used here has one)
file_name(p) == LET names == Components(p).names IN names[Len(names)]

\* Path::extension: the text after the last dot of the file name; none when
\* there is no dot, or when the only dot is the leading one
extension(p) ==
    LET name == file_name(p)
        dots == { i \in 1..Len(name) : name[i] = "." }
    IN  IF name = <<".", ".">> \/ dots = {} \/ Max(dots) = 1 THEN None
        ELSE Some(SubSeq(name, Max(dots) + 1, Len(name)))

DOT == <<".">>
APPDATA == <<"a", "p", "p", "d", "a", "t", "a">>
METAINFO == <<"m", "e", "t", "a", "i", "n", "f", "o">>

\* the override with the extension alone, whatever the file name ends with
OverrideWithExtension(file_path, name) ==
    IF name.some /\ extension(file_path).some
    THEN name.val \o DOT \o extension(file_path).val
    ELSE file_name(file_path)

get_output_filename(file_path, name) ==
    IF name.some
    THEN LET ext == extension(file_path)
             file_str == file_name(file_path)
         IN  IF ext.some
             THEN IF ends_with(file_str, APPDATA_XML) \/ ends_with(file_str, METAINFO_XML)
                  THEN LET base_name == IF ends_with(file_str, APPDATA_XML)
                                        THEN APPDATA ELSE METAINFO
                       IN  name.val \o DOT \o base_name \o DOT \o ext.val
                  ELSE name.val \o DOT \o ext.val
             ELSE file_name(file_path)
    ELSE file_name(file_path)

\* the file name extract_file computes (the same steps, written out again)
extract_file_name(file_path, name) ==
    IF name.some
    THEN LET ext == extension(file_path)
             file_str == file_name(file_path)
         IN  IF ext.some
             THEN IF ends_with(file_str, APPDATA_XML) \/ ends_with(file_str, METAINFO_XML)
                  THEN LET base_name == IF ends_with(file_str, APPDATA_XML)
                                        THEN APPDATA ELSE METAINFO
                       IN  name.val \o DOT \o base_name \o DOT \o ext.val
                  ELSE name.val \o DOT \o ext.val
             ELSE file_name(file_path)
    ELSE file_name(file_path)

\* what a path of the destination directory holds
DestFile(content, mode) == [kind |-> "file", content |-> content, mode |-> mode, target |-> <<>>]
DestDir(mode) == [kind |-> "dir", content |-> "none", mode |-> mode, target |-> <<>>]
DestLink(target) == [kind |-> "symlink", content |-> "none", mode |-> "default", target |-> target]

\* main: get_output_filename(&entry.path, output_name) for a found resource
GetOutputFilename ==
    /\ call = NoCall
    /\ cand.some
    /\ call' = [op |-> "get_output_filename", offset |-> None]
    /\ ret' = RetOk(get_output_filename(cand.val.path, output_name))
    /\ UNCHANGED <<host, archiveVars, nameVars, walkVars, extractVars>>

\* extract_file(squashfs, entry, output_dir, output_name, copy_permissions): a
\* File entry is written under the computed name, any other entry is passed over
ExtractFile ==
    /\ call = NoCall
    /\ cand.some
    /\ call' = [op |-> "extract_file", offset |-> None]
    /\ IF cand.val.kind = "File"
       THEN \/ \E copy_permissions \in BOOLEAN :
                 /\ dest' = (<<extract_file_name(cand.val.path, output_name)>>
                                :> DestFile("full", IF copy_permissions THEN "archive" ELSE "default"))
                 /\ ret' = RetOk(None)
            \/ /\ ret' = RetErr("Io")
               /\ UNCHANGED dest
       ELSE /\ ret' = RetOk(None)
            /\ UNCHANGED dest
    /\ UNCHANGED <<host, archiveVars, nameVars, walkVars, dest0, task, run, faults, killed>>

P_ORG_APPDATA == <<"/", "u", "s", "r", "/", "o", "r", "g", ".", "a", "p", "p", ".", "a", "p", "p", "d", "a", "t", "a", ".", "x", "m", "l">>
P_METAINFO == <<"/", "a", ".", "m", "e", "t", "a", "i", "n", "f", "o", ".", "x", "m", "l">>
P_BARE_APPDATA == <<"/", "a", "p", "p", "d", "a", "t", "a", ".", "x", "m", "l">>
P_UPPER_APPDATA == <<"/", "O", "R", "G", ".", "A", "P", "P", ".", "A", "P", "P", "D", "A", "T", "A", ".", "X", "M", "L">>
P_APPRUN == <<"/", "A", "p", "p", "R", "u", "n">>
P_TAR_GZ == <<"/", "o", "p", "t", "/", "a", ".", "t", "a", "r", ".", "g", "z">>
P_TRAILING_DOT == <<"/", "x", ".">>
N_MYAPP == <<"m", "y", "a", "p", "p">>
N_APPIMAGE == <<"x", ".", "A", "p", "p", "I", "m", "a", "g", "e">>

NamedPaths ==
    {DIRICON, P_DESKTOP, P_APPDATA, P_B, P_ICON_A, P_ICON_B, P_ICON_SVG, P_ORG_APPDATA,
     P_METAINFO, P_BARE_APPDATA, P_UPPER_APPDATA, P_APPRUN, P_TAR_GZ, P_TRAILING_DOT}

InitName ==
    /\ host = NoHost
    /\ call = NoCall
    /\ ret = NoRet
    /\ fs = "SquashFS"
    /\ files = <<>>
    /\ filter = None
    /\ \E p \in NamedPaths, kind \in {"File", "Directory"} :
          cand = Some(Entry(p, U64(0, 10), kind, <<>>))
    /\ cur = None
    /\ visited = {}
    /\ depth = 0
    /\ pc = "idle"
    /\ output_name \in {None, Some(N_MYAPP), Some(N_APPIMAGE)}
    /\ NoWalk /\ NoExtract

NextName ==
    \/ GetOutputFilename
    \/ ExtractFile

SpecName == InitName /\ [][NextName]_vars

(***************************************************************************)
(* Claims about the output file name (SpecName)                            *)
(***************************************************************************)
\* the name an operation of SpecName gave the output file
NamedAs(n) ==
    \/ call.op = "get_output_filename" /\ ret = RetOk(n)
    \/ call.op = "extract_file" /\ ret.ok /\ cand.val.kind = "File" /\ DOMAIN dest = {<<n>>}

Named == call.op = "get_output_filename" \/ (call.op = "extract_file" /\ ret.ok /\ cand.val.kind = "File")

OriginalName == file_name(cand.val.path)

\* the text after the last dot of the original file name
AfterLastDot(n) ==
    LET dots == { i \in 1..Len(n) : n[i] = "." }
    IN  SubSeq(n, Max(dots) + 1, Len(n))

HasDot(n) == \E i \in 1..Len(n) : n[i] = "."

\* a file name has an extension when it has a dot that is not its first character
HasExtension(n) == \E i \in 2..Len(n) : n[i] = "."

\* C12 as stated: without an override the original file name is kept; with
\* an override N the result is N.appdata.xml or N.metainfo.xml for a name that
\* ends so, and otherwise N, a dot and the original file's extension (for a
\* name without an extension: N, with or without the dot).
C12_OverrideKeepsExtension ==
    Named =>
        IF ~output_name.some THEN NamedAs(OriginalName)
        ELSE LET N == output_name.val
             IN  IF ends_with(OriginalName, APPDATA_XML) THEN NamedAs(N \o DOT \o APPDATA_XML)
                 ELSE IF ends_with(OriginalName, METAINFO_XML) THEN NamedAs(N \o DOT \o METAINFO_XML)
                 ELSE \/ HasDot(OriginalName) /\ NamedAs(N \o DOT \o AfterLastDot(OriginalName))
                      \/ ~HasExtension(OriginalName) /\ (NamedAs(N) \/ NamedAs(N \o DOT))

\* C12 as amended: the same for a file name that has an extension; a file
\* name without one (no dot, or only a leading dot as in .DirIcon) is kept
\* unchanged even with an override.
C12_OverrideKeepsExtensionIfAny ==
    Named =>
        IF ~output_name.some \/ ~HasExtension(OriginalName) THEN NamedAs(OriginalName)
        ELSE LET N == output_name.val
             IN  IF ends_with(OriginalName, APPDATA_XML) THEN NamedAs(N \o DOT \o APPDATA_XML)
                 ELSE IF ends_with(OriginalName, METAINFO_XML) THEN NamedAs(N \o DOT \o METAINFO_XML)
                 ELSE NamedAs(N \o DOT \o AfterLastDot(OriginalName))

C12_Witness ==
    /\ call.op = "get_output_filename"
    /\ cand.val.path = P_ORG_APPDATA
    /\ output_name = Some(N_MYAPP)
    /\ ret = RetOk(<<"m", "y", "a", "p", "p", ".", "a", "p", "p", "d", "a", "t", "a", ".", "x", "m", "l">>)

\* the file name the operation computed
ResultName ==
    IF call.op = "get_output_filename" THEN ret.value
    ELSE CHOOSE n \in { q[1] : q \in DOMAIN dest } : TRUE

\* C25: for an entry that find_appstream can return, one whose lower-cased
\* path ends with appdata.xml or metainfo.xml, and an override name, the
\* computed file name ends with .appdata.xml or .metainfo.xml respectively,
\* also when the original file name is written in upper case.
C25_AppstreamSuffixKept ==
    (Named /\ output_name.some) =>
        /\ ends_with(to_lowercase(cand.val.path), APPDATA_XML) =>
              ends_with(ResultName, DOT \o APPDATA_XML)
        /\ ends_with(to_lowercase(cand.val.path), METAINFO_XML) =>
              ends_with(ResultName, DOT \o METAINFO_XML)

(***************************************************************************)
(* Reading and writing entries; bulk extraction into a destination         *)
(* directory.  A destination path is the sequence of its names below the   *)
(* output directory.  A file's content is "empty", "partial" or "full";    *)
(* a mode is "default" (what the creating call gives) or "archive" (the    *)
(* permission bits recorded for the entry).                                *)
(***************************************************************************)
\* SquashFS::read_file: the first node with that path that is a file; its
\* bytes are pushed while the reader gives Some(Ok(byte)), so the loop also
\* ends at the first Err (fault), and what was read so far is returned
SquashFS_read_file(nodes, path, fault) ==
    IF \E i \in 1..Len(nodes) : PathEq(nodes[i].fullpath, path) /\ nodes[i].inner = "File"
    THEN IF fault THEN RetOk(Some("partial")) ELSE RetOk(Some("full"))
    ELSE RetErr("FileNotFound")

\* DwarFS::read_file: look the components up in the index, then as_file(),
\* then read_to_vec, whose error (fault) becomes SquishyError::Io
DwarFS_read_file(nodes, path, fault) ==
    LET inode == Find(nodes, LAMBDA n : Components(n.fullpath).names = Components(path).names)
    IN  IF ~inode.some THEN RetErr("FileNotFound")
        ELSE IF inode.val.inner # "File" THEN RetErr("InvalidDwarFS")
        ELSE IF fault THEN RetErr("Io")
        ELSE RetOk(Some("full"))

Parent(p) == SubSeq(p, 1, Len(p) - 1)

Has(d, p) == p \in DOMAIN d

\* stat of a path follows symlinks, at most hops of them in a row
RECURSIVE Follows(_, _, _)
Follows(d, p, hops) ==
    IF p = <<>> THEN TRUE
    ELSE IF ~Has(d, p) THEN FALSE
    ELSE IF d[p].kind = "symlink"
         THEN hops > 0 /\ Follows(d, Parent(p) \o d[p].target, hops - 1)
         ELSE TRUE

\* an existence test that never finds anything
NeverExists(d, p) == FALSE

\* Path::exists: a dangling or looping symlink does not exist
path_exists(d, p) == Follows(d, p, Cardinality(DOMAIN d))

Prefixes(p) == { SubSeq(p, 1, k) : k \in 1..Len(p) }

MissingDirs(d, p) == { q \in Prefixes(p) : ~Has(d, q) }

\* fs::create_dir_all: every missing directory of the path, default mode
create_dir_all(d, p) ==
    [q \in (DOMAIN d) \cup Prefixes(p) |-> IF Has(d, q) THEN d[q] ELSE DestDir("default")]

\* File::create: a new empty file, or the existing one truncated
File_create(d, p) ==
    (p :> (IF Has(d, p) THEN [d[p] EXCEPT !.content = "empty"] ELSE DestFile("empty", "default"))) @@ d

\* fs::set_permissions with the entry's mode
set_permissions(d, p) == [d EXCEPT ![p].mode = "archive"]

\* bytes reaching the destination file
write_bytes(d, p, content) == [d EXCEPT ![p].content = content]

\* strip_prefix("/").unwrap_or(path): the names below the root
StripRoot(p) == Components(p).names

BulkOps == {"Unsquashfs", "DwarfsExtract"}
WriteOps == {"SquashFS::write_file_with_permissions", "DwarFS::write_file_with_permissions",
             "AppImage::write_entry_with_permissions"}
ReadOps == {"SquashFS::read_file", "DwarFS::read_file"}

\* the order of the steps that touch the destination, per command and entry kind
Steps(op, kind) ==
    IF op = "Unsquashfs"
    THEN CASE kind = "File" -> <<"parent", "check", "create", "chmod", "copy1", "copy2", "log">>
           [] kind = "Directory" -> <<"parent", "check", "mkdir", "chmoddir">>
           [] kind = "Symlink" -> <<"parent", "check", "symlink">>
           [] OTHER -> <<"parent">>
    ELSE IF op = "DwarfsExtract"
    THEN CASE kind = "File" -> <<"check", "parent", "create", "copy1", "copy2", "chmod", "log">>
           [] kind = "Directory" -> <<"check", "mkdir", "chmoddir">>
           [] kind = "Symlink" -> <<"check", "parent", "symlink">>
           [] OTHER -> <<>>
    ELSE IF op = "SquashFS::write_file_with_permissions"
    THEN <<"create", "chmod", "copy1", "copy2", "return">>
    ELSE <<"create", "copy1", "copy2", "chmod", "return">>

EntryOf(i) == IF fs = "SquashFS" THEN SquashFSEntry(files[i]) ELSE DwarFSEntry(files[i])

\* output_dir.join(entry.path.strip_prefix("/")); a write call gets a path of its own
OutputOf(i) ==
    IF call.op \in BulkOps THEN StripRoot(EntryOf(i).path) ELSE <<file_name(EntryOf(i).path)>>

StepsOf(i) == Steps(call.op, EntryOf(i).kind)

\* the step after pc, "done" after the last
After(steps, at) ==
    LET k == CHOOSE k \in 1..Len(steps) : steps[k] = at
    IN  IF k < Len(steps) THEN steps[k + 1] ELSE "done"

\* where a failed Result of the write call is looked at
OnErr(i) == IF call.op \in BulkOps THEN "log" ELSE "return"

NewTask(op, kind) ==
    [pc |-> IF Steps(op, kind) = <<>> THEN "done" ELSE Steps(op, kind)[1],
     res |-> "ok", failed |-> FALSE, line |-> "none"]

NotStarted == [pc |-> "done", res |-> "ok", failed |-> FALSE, line |-> "none"]

Stopped(t) == t.pc \in {"done", "killed", "panic"}

\* the most operations on the destination that fail in one behaviour
MaxFaults == 1
\* the most runs of a bulk extraction into the same directory
MaxRuns == 2

CanFail == faults < MaxFaults

\* rayon runs the closures of Unsquashfs in any interleaving; the loop of
\* DwarfsExtract takes the entries in order and ends with the first panic
Scheduled(i) ==
    call.op = "DwarfsExtract" =>
        /\ \A j \in 1..(i - 1) : task[j].pc = "done"
        /\ \A j \in 1..Len(task) : task[j].pc # "panic"

At(i, at) == run >= 1 /\ task[i].pc = at /\ Scheduled(i)

Goes(i, t) == task' = [task EXCEPT ![i] = t]

Advance(i) == Goes(i, [task[i] EXCEPT !.pc = After(StepsOf(i), task[i].pc)])

Fails(i, to) ==
    /\ CanFail
    /\ faults' = faults + 1
    /\ Goes(i, [task[i] EXCEPT !.pc = to, !.failed = TRUE,
                               !.res = IF to = "panic" THEN @ ELSE "err"])

\* a bulk extraction run over all entries
StartRun(op, backend) ==
    /\ fs = backend
    /\ run < MaxRuns
    /\ IF run = 0 THEN call = NoCall ELSE call.op = op /\ \A i \in 1..Len(task) : Stopped(task[i])
    /\ call' = [op |-> op, offset |-> None]
    /\ run' = run + 1
    /\ dest0' = dest
    /\ task' = [i \in 1..Len(files) |-> NewTask(op, EntryOf(i).kind)]
    /\ UNCHANGED <<host, ret, archiveVars, nameVars, walkVars, dest, faults, killed>>

UnsquashfsRun == StartRun("Unsquashfs", "SquashFS")

DwarfsExtractRun == StartRun("DwarfsExtract", "DwarFS")

\* DwarFS::write_file_with_permissions / AppImage::write_entry_with_permissions
\* called on one entry: an entry that is no file is refused before anything is created
WriteCall(op, backends, refusal) ==
    /\ fs \in backends
    /\ run = 0
    /\ call = NoCall
    /\ \E i \in 1..Len(files) :
        /\ call' = [op |-> op, offset |-> None]
        /\ cand' = Some(EntryOf(i))
        /\ IF EntryOf(i).kind = "File"
           THEN /\ run' = 1
                /\ task' = [j \in 1..Len(files) |->
                               IF j = i THEN NewTask(op, "File") ELSE NotStarted]
                /\ UNCHANGED ret
           ELSE /\ ret' = RetErr(refusal)
                /\ UNCHANGED <<run, task>>
    /\ UNCHANGED <<host, fs, files, filter, cur, visited, depth, pc, nameVars, walkVars,
                   dest, dest0, faults, killed>>

\* SquashFS::write_file_with_permissions: its argument is a file's reader
SquashFSWriteFileWithPermissions ==
    /\ fs = "SquashFS"
    /\ run = 0
    /\ call = NoCall
    /\ \E i \in 1..Len(files) :
        /\ files[i].inner = "File"
        /\ call' = [op |-> "SquashFS::write_file_with_permissions", offset |-> None]
        /\ cand' = Some(EntryOf(i))
        /\ run' = 1
        /\ task' = [j \in 1..Len(files) |->
                       IF j = i THEN NewTask("SquashFS::write_file_with_permissions", "File")
                       ELSE NotStarted]
    /\ UNCHANGED <<host, ret, fs, files, filter, cur, visited, depth, pc, nameVars, walkVars,
                   dest, dest0, faults, killed>>

DwarFSWriteFileWithPermissions ==
    WriteCall("DwarFS::write_file_with_permissions", {"DwarFS"}, "InvalidDwarFS")

AppImageWriteEntryWithPermissions ==
    WriteCall("AppImage::write_entry_with_permissions", {"SquashFS", "DwarFS"}, "InvalidSquashFS")

ReadPaths == { files[i].fullpath : i \in 1..Len(files) } \cup {P_MISSING}

\* the path names a file of the archive, so that the call reads bytes
ReadsBytes(path) ==
    \E i \in 1..Len(files) : PathEq(files[i].fullpath, path) /\ files[i].inner = "File"

\* a read_file call; the underlying reader may fault part-way through the file
ReadCall(op, backend, result(_, _)) ==
    /\ fs = backend
    /\ run = 0
    /\ call = NoCall
    /\ \E path \in ReadPaths, fault \in BOOLEAN :
        /\ fault => (CanFail /\ ReadsBytes(path))
        /\ faults' = IF fault THEN faults + 1 ELSE faults
        /\ call' = [op |-> op, offset |-> None]
        /\ cur' = Some(path)
        /\ ret' = result(path, fault)
    /\ UNCHANGED <<host, fs, files, filter, cand, visited, depth, pc, nameVars, walkVars,
                   dest, dest0, task, run, killed>>

SquashFSReadFile ==
    ReadCall("SquashFS::read_file", "SquashFS",
             LAMBDA path, fault : SquashFS_read_file(files, path, fault))

DwarFSReadFile ==
    ReadCall("DwarFS::read_file", "DwarFS",
             LAMBDA path, fault : DwarFS_read_file(files, path, fault))

Frame == UNCHANGED <<host, call, archiveVars, nameVars, walkVars, dest0, run, killed>>

\* fs::create_dir_all(output_path.parent().unwrap()).unwrap()
CreateParentDir ==
    \E i \in 1..Len(task) :
        /\ At(i, "parent")
        /\ \/ /\ dest' = create_dir_all(dest, Parent(OutputOf(i)))
              /\ Advance(i)
              /\ UNCHANGED faults
           \/ /\ MissingDirs(dest, Parent(OutputOf(i))) # {}
              /\ Fails(i, "panic")
              /\ UNCHANGED dest
        /\ UNCHANGED ret
        /\ Frame

\* if output_path.exists() { return / continue }
CheckExists ==
    \E i \in 1..Len(task) :
        /\ At(i, "check")
        /\ IF path_exists(dest, OutputOf(i))
           THEN Goes(i, [task[i] EXCEPT !.pc = "done"])
           ELSE Advance(i)
        /\ UNCHANGED <<ret, dest, faults>>
        /\ Frame

\* File::create(&dest)?
FileCreate ==
    \E i \in 1..Len(task) :
        /\ At(i, "create")
        /\ \/ /\ dest' = File_create(dest, OutputOf(i))
              /\ Advance(i)
              /\ UNCHANGED faults
           \/ /\ Fails(i, OnErr(i))
              /\ UNCHANGED dest
        /\ UNCHANGED ret
        /\ Frame

\* fs::set_permissions(dest, Permissions::from_mode(mode))?
SetPermissions ==
    \E i \in 1..Len(task) :
        /\ At(i, "chmod")
        /\ \/ /\ dest' = set_permissions(dest, OutputOf(i))
              /\ Advance(i)
              /\ UNCHANGED faults
           \/ /\ Fails(i, OnErr(i))
              /\ UNCHANGED dest
        /\ UNCHANGED ret
        /\ Frame

\* the first bytes of the stream reach the file
CopyFirst ==
    \E i \in 1..Len(task) :
        /\ At(i, "copy1")
        /\ dest' = write_bytes(dest, OutputOf(i), "partial")
        /\ Advance(i)
        /\ UNCHANGED <<ret, faults>>
        /\ Frame

\* the rest of the stream: written; or the write fails and the call returns
\* the error; or the BufWriter, dropped without flush(), fails to write its
\* buffer and the error is discarded
CopyRest ==
    \E i \in 1..Len(task) :
        /\ At(i, "copy2")
        /\ \/ /\ dest' = write_bytes(dest, OutputOf(i), "full")
              /\ Advance(i)
              /\ UNCHANGED faults
           \/ /\ Fails(i, OnErr(i))
              /\ UNCHANGED dest
           \/ /\ CanFail
              /\ faults' = faults + 1
              /\ Goes(i, [task[i] EXCEPT !.pc = After(StepsOf(i), "copy2"), !.failed = TRUE])
              /\ UNCHANGED dest
        /\ UNCHANGED ret
        /\ Frame

\* Unsquashfs drops the Result (let _ =) and logs "Wrote"; DwarfsExtract
\* matches on it and logs "Wrote" or "Failed to write"
WriteLog ==
    \E i \in 1..Len(task) :
        /\ At(i, "log")
        /\ Goes(i, [task[i] EXCEPT !.pc = "done",
                                   !.line = IF call.op = "Unsquashfs" \/ task[i].res = "ok"
                                            THEN "Wrote" ELSE "Failed"])
        /\ UNCHANGED <<ret, dest, faults>>
        /\ Frame

\* the write call returns its Result
Return ==
    \E i \in 1..Len(task) :
        /\ At(i, "return")
        /\ ret' = IF task[i].res = "ok" THEN RetOk(None) ELSE RetErr("Io")
        /\ Goes(i, [task[i] EXCEPT !.pc = "done"])
        /\ UNCHANGED <<dest, faults>>
        /\ Frame

\* fs::create_dir_all(&output_path).unwrap()
MakeDir ==
    \E i \in 1..Len(task) :
        /\ At(i, "mkdir")
        /\ \/ /\ dest' = create_dir_all(dest, OutputOf(i))
              /\ Advance(i)
              /\ UNCHANGED faults
           \/ /\ MissingDirs(dest, OutputOf(i)) # {}
              /\ Fails(i, "panic")
              /\ UNCHANGED dest
        /\ UNCHANGED ret
        /\ Frame

\* fs::set_permissions(&output_path, ...).unwrap(), then the log line
SetDirPermissions ==
    \E i \in 1..Len(task) :
        /\ At(i, "chmoddir")
        /\ \/ /\ dest' = set_permissions(dest, OutputOf(i))
              /\ Goes(i, [task[i] EXCEPT !.pc = "done", !.line = "Wrote"])
              /\ UNCHANGED faults
           \/ /\ Fails(i, "panic")
              /\ UNCHANGED dest
        /\ UNCHANGED ret
        /\ Frame

\* let _ = unix::fs::symlink(target, &output_path), then the log line: the
\* call fails when the path is taken (EEXIST), and the failure is dropped
MakeSymlink ==
    \E i \in 1..Len(task) :
        /\ At(i, "symlink")
        /\ \/ /\ ~Has(dest, OutputOf(i))
              /\ dest' = (OutputOf(i) :> DestLink(StripRoot(EntryOf(i).target))) @@ dest
              /\ Goes(i, [task[i] EXCEPT !.pc = "done", !.line = "Wrote"])
              /\ UNCHANGED faults
           \/ /\ Has(dest, OutputOf(i))
              /\ Goes(i, [task[i] EXCEPT !.pc = "done", !.line = "Wrote", !.failed = TRUE])
              /\ UNCHANGED <<dest, faults>>
           \/ /\ ~Has(dest, OutputOf(i))
              /\ CanFail
              /\ faults' = faults + 1
              /\ Goes(i, [task[i] EXCEPT !.pc = "done", !.line = "Wrote", !.failed = TRUE])
              /\ UNCHANGED dest
        /\ UNCHANGED ret
        /\ Frame

\* the process of a bulk extraction is interrupted: no closure takes another step
Kill ==
    /\ call.op \in BulkOps
    /\ run >= 1
    /\ run < MaxRuns
    /\ \E i \in 1..Len(task) : ~Stopped(task[i])
    /\ task' = [i \in 1..Len(task) |->
                   IF Stopped(task[i]) THEN task[i] ELSE [task[i] EXCEPT !.pc = "killed"]]
    /\ killed' = killed + 1
    /\ UNCHANGED <<host, call, ret, archiveVars, nameVars, walkVars, dest, dest0, run, faults>>

DirNode(path) == [fullpath |-> path, inner |-> "Dir", link |-> <<>>, file_len |-> U64(0, 0)]

P_D == <<"/", "d">>
P_D_F == <<"/", "d", "/", "f">>
P_G == <<"/", "g">>
P_L == <<"/", "l">>
REL_G == <<"g">>

\* the archives that are extracted, each in its backend's traversal order
ExtractArchives ==
    { <<FileNode(P_G, 10)>>,
      <<DirNode(P_D), FileNode(P_D_F, 10)>>,
      <<DirNode(P_D), FileNode(P_D_F, 10), FileNode(P_G, 10)>>,
      <<FileNode(P_G, 10), LinkNode(P_L, REL_G)>>,
      <<LinkNode(P_L, REL_G), FileNode(P_G, 10)>>,
      <<DirNode(P_D), LinkNode(P_L, P_MISSING)>> }

InitExtract ==
    /\ host = NoHost
    /\ call = NoCall
    /\ ret = NoRet
    /\ fs \in {"SquashFS", "DwarFS"}
    /\ files \in ExtractArchives
    /\ filter = None
    /\ cand = None
    /\ cur = None
    /\ visited = {}
    /\ depth = 0
    /\ pc = "idle"
    /\ NoName /\ NoWalk /\ NoExtract

NextExtract ==
    \/ UnsquashfsRun
    \/ DwarfsExtractRun
    \/ SquashFSWriteFileWithPermissions
    \/ DwarFSWriteFileWithPermissions
    \/ AppImageWriteEntryWithPermissions
    \/ SquashFSReadFile
    \/ DwarFSReadFile
    \/ CreateParentDir
    \/ CheckExists
    \/ FileCreate
    \/ SetPermissions
    \/ CopyFirst
    \/ CopyRest
    \/ WriteLog
    \/ Return
    \/ MakeDir
    \/ SetDirPermissions
    \/ MakeSymlink
    \/ Kill

SpecExtract == InitExtract /\ [][NextExtract]_vars

(***************************************************************************)
(* Claims about writing and bulk extraction (SpecExtract)                  *)
(***************************************************************************)
\* C13: in a permission-preserving write call the destination file carries
\* the archive's permission bits only once its byte stream has completed: in
\* no reachable state, a failed or interrupted copy included, has the file
\* the archive's mode and content that is not complete.
C13_PermissionsAfterCompleteCopy ==
    call.op \in WriteOps =>
        \A p \in DOMAIN dest :
            (dest[p].kind = "file" /\ dest[p].mode = "archive") => dest[p].content = "full"

AllDone == \A i \in 1..Len(task) : task[i].pc = "done"

\* C14: a bulk extraction run leaves every path that was in the destination
\* when the run began as it was (kind, content, mode, target), and an entry
\* whose destination path was there neither aborts the run nor is reported as
\* failed; only missing paths are written.
C14_RunKeepsExistingPaths ==
    call.op \in BulkOps =>
        /\ \A p \in DOMAIN dest0 : Has(dest, p) /\ dest[p] = dest0[p]
        /\ \A i \in 1..Len(task) :
              Has(dest0, OutputOf(i)) => task[i].pc # "panic" /\ task[i].line # "Failed"

C14_Witness ==
    /\ call.op \in BulkOps
    /\ run = 2
    /\ AllDone
    /\ \E p \in DOMAIN dest0 : dest0[p].kind = "file" /\ dest0[p].content = "partial"
    /\ \E q \in DOMAIN dest : ~Has(dest0, q) /\ dest[q].kind = "file" /\ dest[q].content = "full"

\* C15: when a bulk extraction was interrupted and a later run into the same
\* directory completes without a failing operation, the destination of every
\* File entry holds the entry's complete content.
C15_RerunCompletesEveryFile ==
    (call.op \in BulkOps /\ killed >= 1 /\ run >= 2 /\ AllDone /\ faults = 0) =>
        \A i \in 1..Len(task) :
            EntryOf(i).kind = "File" =>
                Has(dest, OutputOf(i)) /\ dest[OutputOf(i)].content = "full"

\* C16: in a bulk extraction no entry's failure aborts the run, an entry with
\* a failed operation ends with a failure line, and the line "Wrote" is only
\* given to an entry none of whose operations failed.
C16_FailuresReportedRunGoesOn ==
    call.op \in BulkOps =>
        \A i \in 1..Len(task) :
            /\ task[i].pc # "panic"
            /\ (task[i].pc = "done" /\ task[i].failed) => task[i].line = "Failed"
            /\ task[i].line = "Wrote" => ~task[i].failed

\* what the archive describes: every entry at its path, with the recorded mode
ExtractedTree ==
    [p \in { OutputOf(i) : i \in 1..Len(files) } |->
        LET e == EntryOf(CHOOSE i \in 1..Len(files) : OutputOf(i) = p)
        IN  CASE e.kind = "File" -> DestFile("full", "archive")
              [] e.kind = "Directory" -> DestDir("archive")
              [] OTHER -> DestLink(StripRoot(e.target))]

\* C17: a first, undisturbed parallel extraction (Unsquashfs) ends with the
\* same destination tree in every interleaving: every entry at its path, every
\* directory with the permission bits recorded in the archive.
C17_ParallelRunEndsWithArchiveTree ==
    (call.op = "Unsquashfs" /\ run = 1 /\ AllDone /\ faults = 0 /\ killed = 0) =>
        dest = ExtractedTree

NodeAt(path) == Find(files, LAMBDA n : PathEq(n.fullpath, path))

\* C19: read_file on a path that is not in the archive fails with
\* FileNotFound; read_file on the path of an entry that is no regular file,
\* and a write call on such an entry, fail with a not-a-file error that is not
\* FileNotFound; no bytes are returned and nothing is created.
C19_NotAFileIsNotFileNotFound ==
    /\ call.op \in ReadOps =>
          /\ ~NodeAt(cur.val).some => ret = RetErr("FileNotFound")
          /\ (NodeAt(cur.val).some /\ NodeAt(cur.val).val.inner # "File") =>
                ~ret.ok /\ ret.err \in {"InvalidSquashFS", "InvalidDwarFS"}
    /\ (call.op \in WriteOps /\ cand.val.kind # "File") =>
          /\ ~ret.ok /\ ret.err \in {"InvalidSquashFS", "InvalidDwarFS"}
          /\ DOMAIN dest = {}

(***************************************************************************)
(* DwarFS::entries: the walk over the directory tree of the archive.  A    *)
(* directory of the tree is the sequence of its entries, each with a name, *)
(* an inode kind and, for a directory, its own entries.                    *)
(***************************************************************************)
TreeNode(name, inner, children) == [name |-> name, inner |-> inner, children |-> children]

\* PathBuf::join with a relative name
join(base_path, name) ==
    IF base_path[Len(base_path)] = "/" THEN base_path \o name ELSE base_path \o <<"/">> \o name

\* the DwarFSEntry built for one directory entry
WalkEntry(path, node) ==
    DwarFSEntry([fullpath |-> path, inner |-> node.inner,
                 file_len |-> IF node.inner = "File" THEN U64(0, 10) ELSE U64(0, 0),
                 link |-> IF node.inner = "Symlink" THEN REL_G ELSE <<>>])

\* walk_dir(dir, base_path): the iterator over a directory, nothing taken yet
walk_dir(dir, base_path) == [base |-> base_path, rest |-> dir]

\* exhausted iterators are left behind
RECURSIVE Unwind(_)
Unwind(s) ==
    IF s = <<>> THEN s
    ELSE IF Head(s).rest = <<>> THEN Unwind(Tail(s))
    ELSE s

\* a walk that never enters a directory
NoDescent(left, path, node) == left

\* once(dir_entry).chain(self.walk_dir(d, path)): the entries of a directory
\* come next, before the rest of the directory that holds it
Descend(left, path, node) ==
    IF node.inner = "Dir" THEN <<walk_dir(node.children, path)>> \o left ELSE left

ROOT == <<"/">>

\* dwarfs.entries()
DwarFSEntriesCall ==
    /\ pc = "idle"
    /\ call = NoCall
    /\ call' = [op |-> "DwarFS::entries", offset |-> None]
    /\ stack' = <<walk_dir(tree, ROOT)>>
    /\ pc' = "walk"
    /\ UNCHANGED <<host, ret, fs, files, filter, cand, cur, visited, depth, nameVars,
                   tree, out, extractVars>>

\* next() on the iterator gives the next entry
WalkDirNext ==
    /\ pc = "walk"
    /\ Unwind(stack) # <<>>
    /\ LET s == Unwind(stack)
           node == Head(Head(s).rest)
           path == join(Head(s).base, node.name)
           left == <<[Head(s) EXCEPT !.rest = Tail(@)]>> \o Tail(s)
       IN  /\ out' = Append(out, WalkEntry(path, node))
           /\ stack' = Descend(left, path, node)
    /\ UNCHANGED <<host, call, ret, archiveVars, nameVars, tree, extractVars>>

\* next() on the iterator gives None
WalkDirEnd ==
    /\ pc = "walk"
    /\ Unwind(stack) = <<>>
    /\ stack' = <<>>
    /\ pc' = "done"
    /\ UNCHANGED <<host, call, ret, fs, files, filter, cand, cur, visited, depth, nameVars,
                   tree, out, extractVars>>

\* the most inodes below the root of a tree
MaxNodes == 4

WalkNames == {<<"a">>, <<"b">>}
LeafKinds == {"File", "Symlink"}

\* the names within one directory are distinct
DistinctNames(dir) == \A i, j \in 1..Len(dir) : i # j => dir[i].name # dir[j].name

\* the directories whose trees have at most n inodes
RECURSIVE Dirs(_)
Dirs(n) ==
    IF n = 0 THEN {<<>>}
    ELSE LET firsts(k) ==
                 { TreeNode(name, "Dir", c) : name \in WalkNames, c \in Dirs(k) }
                 \cup (IF k = 0
                       THEN { TreeNode(name, kind, <<>>) : name \in WalkNames, kind \in LeafKinds }
                       ELSE {})
             lists == UNION { { <<first>> \o others : first \in firsts(k), others \in Dirs(n - 1 - k) } :
                              k \in 0..(n - 1) }
         IN  {<<>>} \cup { dir \in lists : DistinctNames(dir) }

InitWalk ==
    /\ host = NoHost
    /\ call = NoCall
    /\ ret = NoRet
    /\ fs = "DwarFS"
    /\ files = <<>>
    /\ filter = None
    /\ cand = None
    /\ cur = None
    /\ visited = {}
    /\ depth = 0
    /\ pc = "idle"
    /\ tree \in Dirs(MaxNodes)
    /\ stack = <<>>
    /\ out = <<>>
    /\ NoName /\ NoExtract

NextWalk ==
    \/ DwarFSEntriesCall
    \/ WalkDirNext
    \/ WalkDirEnd

SpecWalk == InitWalk /\ [][NextWalk]_vars

(***************************************************************************)
(* Claims about the walk (SpecWalk)                                        *)
(***************************************************************************)
\* the paths of all inodes below a directory
RECURSIVE PathsBelow(_, _)
PathsBelow(base_path, dir) ==
    UNION { {join(base_path, dir[i].name)}
            \cup PathsBelow(join(base_path, dir[i].name), dir[i].children) :
            i \in 1..Len(dir) }

\* the paths of the directories among them
RECURSIVE DirPathsBelow(_, _)
DirPathsBelow(base_path, dir) ==
    UNION { (IF dir[i].inner = "Dir" THEN {join(base_path, dir[i].name)} ELSE {})
            \cup DirPathsBelow(join(base_path, dir[i].name), dir[i].children) :
            i \in 1..Len(dir) }

\* path p lies beneath the directory path q
Beneath(p, q) == Len(p) > Len(q) + 1 /\ SubSeq(p, 1, Len(q) + 1) = q \o <<"/">>

\* C18: the entries DwarFS::entries() has given so far have paths of the
\* tree that begin with "/", no path twice, and every directory beneath
\* which an entry lies was given before that entry, as a Directory; when the
\* walk has ended, which it does after as many entries as the tree has inodes,
\* every inode below the root (the root directory is where the walk starts and
\* has no entry) has been given exactly once.
C18_PreOrderEachNodeOnce ==
    /\ \A j \in 1..Len(out) :
          /\ Head(out[j].path) = "/"
          /\ out[j].path \in PathsBelow(ROOT, tree)
          /\ \A i \in 1..Len(out) : i # j => out[i].path # out[j].path
          /\ \A q \in PathsBelow(ROOT, tree) :
                Beneath(out[j].path, q) =>
                    \E i \in 1..(j - 1) : out[i].path = q /\ out[i].kind = "Directory"
          /\ out[j].kind = "Directory" <=> out[j].path \in DirPathsBelow(ROOT, tree)
    /\ pc = "done" =>
          /\ { out[j].path : j \in 1..Len(out) } = PathsBelow(ROOT, tree)
          /\ Len(out) = Cardinality(PathsBelow(ROOT, tree))

C18_Witness ==
    /\ pc = "done"
    /\ Len(out) = MaxNodes
    /\ \E i, j, k \in 1..Len(out) :
          /\ out[i].kind = "Directory"
          /\ out[j].kind = "Directory"
          /\ Beneath(out[j].path, out[i].path)
          /\ Beneath(out[k].path, out[j].path)
          /\ k < Len(out)
          /\ ~Beneath(out[Len(out)].path, out[i].path)

(***************************************************************************)
(* Claims about reading a file (SpecExtract)                               *)
(***************************************************************************)
\* C24: read_file returns the complete contents of the file or an error: a
\* successful result is never a truncated byte vector, and a fault of the
\* underlying reader part-way through the file ends the call with an I/O
\* failure, in both backends.
C24_ReadIsCompleteOrFails ==
    call.op \in ReadOps =>
        /\ ret.ok => ret.value = Some("full")
        /\ faults > 0 => ret = RetErr("Io")

====
